---- MODULE Spec2Model ----
(***************************************************************************)
(* Model of the reference store of the file-ref-tags extension             *)
(* (src/src/extension.ts): class ReferenceDataManager, its backing file    *)
(* references.json, and the panel / command handlers that call it.         *)
(*                                                                         *)
(* A JavaScript object is modelled by a record with an "obj" field, the    *)
(* object's identity: two array slots holding the same object carry the    *)
(* same obj.  A property that is missing or undefined reads as Undefined.  *)
(*                                                                         *)
(* The extension host runs one handler at a time.  A step of the model is  *)
(* one whole handler (or the constructor); lastOp keeps what was called,   *)
(* with which arguments and with what outcome, until HandlerReturns.       *)
(* A handler that searches the workspace (a scan) is asynchronous: it      *)
(* suspends at every openTextDocument, and other handlers run meanwhile;   *)
(* scan keeps where it is suspended and what it has found so far.          *)
(*                                                                         *)
(* Spec is the store alone, with a clock that advances and writes that     *)
(* fail.  SpecWorkspace adds the four add commands and the scans over the  *)
(* workspace, SpecCallers a caller of getReferences and another writer of  *)
(* the file, both in a session whose writes succeed and whose clock        *)
(* stands still.  In a session the handlers post the collection to the     *)
(* panel (panel), once its view is resolved.  SpecReorder sends the        *)
(* panel's updateOrder sequences that repeat an id, SpecEdits lets the     *)
(* documents of the workspace change while a scan is suspended, SpecLinks  *)
(* runs the copy-link commands and the decoding of the link by handleUri,  *)
(* and SpecScans is the scans under the fairness of the awaited opens.     *)
(***************************************************************************)
EXTENDS Integers, Sequences, FiniteSets, TLC

\* ---------------------------------------------------------------- bounds
\* number of records the add commands are exercised up to
MaxRefs == 2
\* length of the id sequences sent to updateOrder
MaxOrderLen == 2
\* the clock (Date.now(), in ms) runs from 1 to MaxTime
MaxTime == 2
\* number of writeFileSync calls that fail in one behaviour
MaxWriteFails == 1
\* number of files findFiles returns
MaxFiles == 3
\* number of times another writer replaces the file in one behaviour
MaxExternalWrites == 1
\* length of the snippets the copy-link commands are given
MaxTextLen == 3
\* length of the file names the copy-link commands are given
MaxNameLen == 1

\* ---------------------------------------------------------------- values
Undefined == "<undefined>"
FilePaths == {"/a/b.ts"}
Snippets == {"foo()"}
NewTitles == {"renamed"}
Times == 1..MaxTime
\* the suffixes Math.random().toString(36).substr(2, 9) may return
RandomSuffixes == {"k3x9q", "z81mf"}
\* `ref-${Date.now()}-${suffix}`
Ids == [t : Times, r : RandomSuffixes]
NoId == [t |-> 0, r |-> ""]
NoRecord == [obj |-> 0, id |-> NoId, type |-> "", title |-> "",
             filePath |-> Undefined, snippet |-> Undefined,
             createdAt |-> 0, updatedAt |-> 0]

VARIABLES
  references,   \* ReferenceDataManager.references: [tag, items]
  file,         \* content of storagePath (references.json): [kind, items]
  clock,        \* the last value the system clock returned
  writeFails,   \* how many writes of the file have failed so far
  lastOp,       \* the last call made on the store, its arguments and outcome
  scan,         \* the scan in flight: where it is suspended, what it found
  listed,       \* the array getReferences returned to the caller running
  foreign,      \* what another writer has done to the file
  panel,        \* the panel view: resolved or not, the last list posted
  workspace,    \* the documents of the workspace, by file
  link          \* the link on the clipboard and what handleUri made of it

vars == <<references, file, clock, writeFails, lastOp,
          scan, listed, foreign, panel, workspace, link>>

\* what the scans and the store neither read nor write
envVars == <<workspace, link>>

\* what the store's own methods neither read nor write
hostVars == <<scan, listed, foreign, panel, envVars>>

\* ------------------------------------------------------------ sequences
Range(s) == {s[i] : i \in DOMAIN s}

SeqsUpTo(S, n) == UNION {[1..k -> S] : k \in 0..n}

\* Array.prototype.find: the first element with that id, or NoRecord
Find(items, id) ==
  IF \E i \in DOMAIN items : items[i].id = id
  THEN items[CHOOSE i \in DOMAIN items :
               /\ items[i].id = id
               /\ \A j \in 1..(i - 1) : items[j].id # id]
  ELSE NoRecord

\* identity of a newly allocated object: one no live element carries
NewObj(items) ==
  CHOOSE n \in 1..(Len(items) + 1) :
    /\ \A i \in DOMAIN items : items[i].obj # n
    /\ \A m \in 1..(n - 1) : \E i \in DOMAIN items : items[i].obj = m

\* ----------------------------------------------------------------- JSON
\* a serializer that forgets the snippet property
StringifyItem_NoSnippet(r) ==
  LET base == [type |-> r.type, title |-> r.title, id |-> r.id,
               createdAt |-> r.createdAt, updatedAt |-> r.updatedAt]
  IN  IF r.filePath # Undefined
      THEN base @@ [filePath |-> r.filePath] ELSE base

\* JSON.stringify of one record: own properties, undefined ones left out
StringifyItem(r) ==
  LET base == [type |-> r.type, title |-> r.title, id |-> r.id,
               createdAt |-> r.createdAt, updatedAt |-> r.updatedAt]
      fp == IF r.filePath # Undefined
            THEN base @@ [filePath |-> r.filePath] ELSE base
  IN  IF r.snippet # Undefined THEN fp @@ [snippet |-> r.snippet] ELSE fp

\* JSON.stringify(this.references, null, 2)
Stringify(items) == [i \in DOMAIN items |-> StringifyItem(items[i])]

\* one element of the parsed array: a new object; a key the text lacks
\* reads as undefined
ParseItem(j, o) ==
  [obj |-> o, id |-> j.id, type |-> j.type, title |-> j.title,
   filePath |-> IF "filePath" \in DOMAIN j THEN j.filePath ELSE Undefined,
   snippet |-> IF "snippet" \in DOMAIN j THEN j.snippet ELSE Undefined,
   createdAt |-> j.createdAt, updatedAt |-> j.updatedAt]

\* JSON.parse of an array document
Parse(jitems) == [i \in DOMAIN jitems |-> ParseItem(jitems[i], i)]

\* ------------------------------------------------------------ the store
ArrayOf(items) == [tag |-> "array", items |-> items]
\* what JSON.parse returns for a document that is no array, e.g. {}
NotArray == [tag |-> "object", items |-> <<>>]

IsArray(refs) == refs.tag = "array"

NoFile == [kind |-> "absent", items |-> <<>>]
Unparsable == [kind |-> "unparsable", items |-> <<>>]
ObjectDoc == [kind |-> "object", items |-> <<>>]
\* no file, and no directory for it that mkdirSync can create
NoDirectory == [kind |-> "nodir", items |-> <<>>]
ArrayDoc(jitems) == [kind |-> "array", items |-> jitems]

\* a load that assigns whatever a lenient parser salvages from a broken
\* document instead of falling back to the empty array
loadReferences_Lenient(f) ==
  CASE f.kind = "absent" -> ArrayOf(<<>>)
    [] f.kind = "unparsable" -> NotArray
    [] f.kind = "object" -> NotArray
    [] f.kind = "array" -> ArrayOf(Parse(f.items))

\* loadReferences(), starting from the field initialiser references = []
loadReferences(f) ==
  CASE f.kind = "absent" -> ArrayOf(<<>>)
    [] f.kind = "unparsable" -> ArrayOf(<<>>)
    [] f.kind = "object" -> NotArray
    [] f.kind = "array" -> ArrayOf(Parse(f.items))

\* a save that serializes the collection as it was before the call
saveReferences_Before(items, ok) ==
  IF ok THEN ArrayDoc(Stringify(references.items)) ELSE file

\* a save that leaves alone a file another writer has changed since the
\* load
saveReferences_KeepsForeign(items, ok) ==
  IF ok /\ ~foreign.unseen THEN ArrayDoc(Stringify(items)) ELSE file

\* a store that gives up saving once a write has failed
saveReferences_GivesUp(items, ok) ==
  IF ok /\ writeFails = 0 THEN ArrayDoc(Stringify(items)) ELSE file

\* saveReferences(): writeFileSync either replaces the file or throws
\* before it has changed it (the open fails); the throw is caught and
\* logged
saveReferences(items, ok) ==
  IF ok THEN ArrayDoc(Stringify(items)) ELSE file

\* the outcomes writeFileSync may have
WriteOutcomes == IF writeFails < MaxWriteFails THEN BOOLEAN ELSE {TRUE}

Wrote(ok) == IF ok THEN "ok" ELSE "failed"

CountWrite(ok) == writeFails' = IF ok THEN writeFails ELSE writeFails + 1


\* ------------------------------------------------- ReferenceDataManager
\* the object addReference builds: the caller's properties, then id,
\* createdAt and updatedAt; now is new Date(), stamp is Date.now()
NewReference(items, reference, now, stamp, rnd) ==
  [obj |-> NewObj(items),
   type |-> reference.type, title |-> reference.title,
   filePath |-> reference.filePath, snippet |-> reference.snippet,
   id |-> [t |-> stamp, r |-> rnd],
   createdAt |-> now, updatedAt |-> now]

\* a push onto a new array: the records stored before are dropped
addReference_Alone(items, reference, now, stamp, rnd) ==
  <<NewReference(items, reference, now, stamp, rnd)>>

\* addReference: this.references.push(newReference)
addReference(items, reference, now, stamp, rnd) ==
  Append(items, NewReference(items, reference, now, stamp, rnd))

\* getReferences: [...this.references], a new array of the same objects
getReferences(items) == [i \in DOMAIN items |-> items[i]]

\* updateOrder, first loop: for each id of newOrder the first record
\* with that id, when there is one
RECURSIVE NamedRefs(_, _)
NamedRefs(items, newOrder) ==
  IF newOrder = <<>> THEN <<>>
  ELSE LET ref == Find(items, Head(newOrder))
       IN  (IF ref # NoRecord THEN <<ref>> ELSE <<>>)
             \o NamedRefs(items, Tail(newOrder))

\* updateOrder, second loop: the records whose id newOrder does not include
UnnamedRefs(items, newOrder) ==
  SelectSeq(items, LAMBDA ref : ref.id \notin Range(newOrder))

updateOrder(items, newOrder) ==
  NamedRefs(items, newOrder) \o UnnamedRefs(items, newOrder)

\* deleteReference: this.references.filter(r => r.id !== id)
deleteReference(items, id) == SelectSeq(items, LAMBDA r : r.id # id)

\* a rename that rebuilds the record as a comment
updateReferenceTitle_Retypes(items, id, title, now) ==
  LET reference == Find(items, id)
  IN  IF reference = NoRecord THEN items
      ELSE [i \in DOMAIN items |->
              IF items[i].obj = reference.obj
              THEN [items[i] EXCEPT !.title = title, !.updatedAt = now,
                                    !.type = "comment"]
              ELSE items[i]]

\* updateReferenceTitle: the first record with that id is changed in
\* place, so every slot holding that object shows the change
updateReferenceTitle(items, id, title, now) ==
  LET reference == Find(items, id)
  IN  IF reference = NoRecord THEN items
      ELSE [i \in DOMAIN items |->
              IF items[i].obj = reference.obj
              THEN [items[i] EXCEPT !.title = title, !.updatedAt = now]
              ELSE items[i]]

\* ------------------------------------------------------------ documents
\* the characters of a string of the model
Chars(str) ==
  CASE str = "foo()" -> <<"f", "o", "o", "(", ")">>
    [] OTHER -> <<>>

\* a document openTextDocument cannot open: the call throws
Unreadable == [readable |-> FALSE, text |-> <<>>]

TextDocument(text) == [readable |-> TRUE, text |-> text]

\* "foo(x": the start of the fragment, not the fragment
PlainText == <<"f", "o", "o", "(", "x">>
\* "x\nfoo() foo()": the fragment twice, first at offset 2, on line 1
MatchText == <<"x", "\n", "f", "o", "o", "(", ")", " ",
               "f", "o", "o", "(", ")">>

\* what openTextDocument may come back with
Documents == {Unreadable, TextDocument(PlainText), TextDocument(MatchText)}

\* the lists findFiles('**/*', '**/node_modules/**', 10000) may return:
\* the files of the workspace, by number
FileLists == {[k \in 1..n |-> k] : n \in 0..MaxFiles}

\* an indexOf that reports the last occurrence
IndexOf_Last(text, searchString) ==
  LET n == Len(searchString)
      at == {k \in 0..(Len(text) - n) :
               SubSeq(text, k + 1, k + n) = searchString}
  IN  IF at = {} THEN -1
      ELSE CHOOSE k \in at : \A m \in at : m <= k

\* String.prototype.indexOf: the 0-based offset of the first occurrence of
\* searchString in text, or -1
IndexOf(text, searchString) ==
  LET n == Len(searchString)
      at == {k \in 0..(Len(text) - n) :
               SubSeq(text, k + 1, k + n) = searchString}
  IN  IF at = {} THEN -1
      ELSE CHOOSE k \in at : \A m \in at : k <= m

\* String.prototype.includes
Includes(text, searchString) == IndexOf(text, searchString) # -1

NoPosition == [line |-> -1, character |-> -1]

\* TextDocument.positionAt: the line and the character of an offset; a
\* line ends at "\n"
PositionAt(text, offset) ==
  LET breaks == {k \in 1..offset : text[k] = "\n"}
      lineStart == IF breaks = {} THEN 0
                   ELSE CHOOSE k \in breaks : \A m \in breaks : m <= k
  IN  [line |-> Cardinality(breaks), character |-> offset - lineStart]

\* ---------------------------------------------------------------- scans
\* a scan handler: purpose is "add" (addGlobalUniqueSnippet), "jump"
\* (_jumpToReference) or "uri" (jumpToGlobalSnippet); pc is "open" while
\* it is suspended at an openTextDocument and "done" at its end.  The jump
\* to a file-snippet record (purpose "file-snippet") is kept here too: it
\* is suspended at showTextDocument ("show") until it ends ("jumped"), and
\* its one file is the record's.  files is what
\* findFiles returned, i the number of files the loop has been through,
\* pending the files whose openTextDocument has been called and has not
\* come back, opened the files whose openTextDocument has come back, docs
\* what each of these calls came back with, shown what the handler did at
\* its end, overtaken whether another handler has changed the collection
\* while the add command's scan was suspended
NoScan ==
  [pc |-> "none", purpose |-> "", snippet |-> Undefined, id |-> NoId,
   files |-> <<>>, i |-> 0, pending |-> {}, opened |-> <<>>, docs |-> <<>>,
   overtaken |-> FALSE,
   matchCount |-> 0, matchFile |-> 0,
   matchStartPosition |-> NoPosition, matchEndPosition |-> NoPosition,
   shown |-> "none"]

\* no array has been handed out by getReferences
NoList == [given |-> FALSE, own |-> FALSE, items |-> <<>>]

\* no other writer has touched the file
NoForeign == [writes |-> 0, unseen |-> FALSE]

\* _webviewView is undefined: the view has not been resolved, nothing has
\* been posted
NoPanel == [view |-> FALSE, posted |-> FALSE, references |-> <<>>]

\* the workspace is not looked at
NoWorkspace == <<>>

\* no link has been copied
NoLink == [pc |-> "none"]

\* the handler up to its loop: findFiles has returned
NewScan(purpose, snippet, id, files) ==
  [NoScan EXCEPT !.pc = "open", !.purpose = purpose, !.snippet = snippet,
                 !.id = id, !.files = files]

\* a loop body that lets a failed open end the search as two matches do
Visit_AbortOnFailure(s, uri, doc) ==
  LET snippet == Chars(s.snippet)
      index == IF doc.readable THEN IndexOf(doc.text, snippet) ELSE -1
      found == doc.readable /\ index # -1
      keep == s.purpose = "add" \/ ~found
  IN  [s EXCEPT
         !.i = @ + 1,
         !.opened = Append(@, uri),
         !.docs = Append(@, doc),
         !.matchCount = IF ~doc.readable THEN 2
                        ELSE IF found THEN @ + 1 ELSE @,
         !.matchFile = IF found THEN uri ELSE @,
         !.matchStartPosition =
            IF keep THEN @ ELSE PositionAt(doc.text, index),
         !.matchEndPosition =
            IF keep THEN @ ELSE PositionAt(doc.text, index + Len(snippet))]

\* a loop body that opens the file and takes every opened file as a match
Visit_CountsEveryFile(s, uri, doc) ==
  LET snippet == Chars(s.snippet)
      index == IF doc.readable THEN IndexOf(doc.text, snippet) ELSE -1
      found == doc.readable
      keep == s.purpose = "add" \/ ~found
  IN  [s EXCEPT
         !.i = @ + 1,
         !.opened = Append(@, uri),
         !.docs = Append(@, doc),
         !.matchCount = IF found THEN @ + 1 ELSE @,
         !.matchFile = IF found THEN uri ELSE @,
         !.matchStartPosition =
            IF keep THEN @ ELSE PositionAt(doc.text, index),
         !.matchEndPosition =
            IF keep THEN @ ELSE PositionAt(doc.text, index + Len(snippet))]

\* a loop body that starts the search again after a failed open
Visit_RestartsOnFailure(s, uri, doc) ==
  LET snippet == Chars(s.snippet)
      index == IF doc.readable THEN IndexOf(doc.text, snippet) ELSE -1
      found == /\ doc.readable
               /\ IF s.purpose = "add" THEN Includes(doc.text, snippet)
                  ELSE index # -1
      keep == s.purpose = "add" \/ ~found
  IN  IF ~doc.readable /\ s.i > 0
      THEN [s EXCEPT !.i = 0, !.opened = <<>>, !.docs = <<>>,
                     !.matchCount = 0, !.matchFile = 0,
                     !.matchStartPosition = NoPosition,
                     !.matchEndPosition = NoPosition]
      ELSE [s EXCEPT
              !.i = @ + 1,
              !.opened = Append(@, uri),
              !.docs = Append(@, doc),
              !.matchCount = IF found THEN @ + 1 ELSE @,
              !.matchFile = IF found THEN uri ELSE @,
              !.matchStartPosition =
                 IF keep THEN @ ELSE PositionAt(doc.text, index),
              !.matchEndPosition =
                 IF keep THEN @
                 ELSE PositionAt(doc.text, index + Len(snippet))]

\* one turn of the loop over files: openTextDocument(uri) returns doc or
\* throws (the catch logs it and goes on); a document whose text holds
\* the snippet counts as a match; the jumps keep the range of the first
\* occurrence, the add command (text.includes) keeps no range
Visit(s, uri, doc) ==
  LET snippet == Chars(s.snippet)
      index == IF doc.readable THEN IndexOf(doc.text, snippet) ELSE -1
      found == /\ doc.readable
               /\ IF s.purpose = "add" THEN Includes(doc.text, snippet)
                  ELSE index # -1
      keep == s.purpose = "add" \/ ~found
  IN  [s EXCEPT
         !.i = @ + 1,
         !.opened = Append(@, uri),
         !.docs = Append(@, doc),
         !.matchCount = IF found THEN @ + 1 ELSE @,
         !.matchFile = IF found THEN uri ELSE @,
         !.matchStartPosition =
            IF keep THEN @ ELSE PositionAt(doc.text, index),
         !.matchEndPosition =
            IF keep THEN @ ELSE PositionAt(doc.text, index + Len(snippet))]

\* a loop without the break
Continue_NoBreak(s) == s.i < Len(s.files)

\* the loop goes on: no break (matchCount > 1) and files are left
Continue(s) == s.matchCount <= 1 /\ s.i < Len(s.files)

\* ----------------------------------------------------------- bookkeeping
\* the record of a call: which method, its arguments (reference for
\* addReference, order for updateOrder, id and title for the others),
\* whether it threw, what its writeFileSync did ("ok", "failed", or "none"
\* when it made no write) and what it returned
Call(op, reference, id, title, order, raised, wrote, ret) ==
  [op |-> op, reference |-> reference, id |-> id, title |-> title,
   order |-> order, raised |-> raised, wrote |-> wrote, ret |-> ret]

NoReference == [type |-> "", title |-> "", filePath |-> Undefined,
                snippet |-> Undefined]

Op(op, id, title, order, raised, wrote, ret) ==
  Call(op, NoReference, id, title, order, raised, wrote, ret)

\* the extension host runs one handler at a time: a handler starts only
\* when the one before it has returned
Ready == lastOp.op = "idle"

\* a call on a store whose references is no array: the first array method
\* called on it (push, find, forEach, filter) throws a TypeError, which
\* nothing in the manager or the handler catches
Raise(op, id, title, order) ==
  /\ Ready
  /\ ~IsArray(references)
  /\ lastOp' = Op(op, id, title, order, TRUE, "none", NoRecord)
  /\ UNCHANGED <<references, file, clock, writeFails>>

\* the values a clock read may return
ClockReads(from) == {t \in Times : from <= t /\ t <= from + 1}

\* ----------------------------------------------------------------- Init
InitFiles == {NoFile, Unparsable, ObjectDoc, NoDirectory}

\* the constructor: mkdirSync, outside any try, then loadReferences; when
\* mkdirSync throws, the constructor and activate throw with it, and
\* references is what its field initialiser made it
Init ==
  /\ file \in InitFiles
  /\ references = IF file = NoDirectory THEN ArrayOf(<<>>)
                  ELSE loadReferences(file)
  /\ clock = 1
  /\ writeFails = 0
  /\ lastOp = Op("load", NoId, "", <<>>, file = NoDirectory, "none",
                 NoRecord)
  /\ scan = NoScan
  /\ listed = NoList
  /\ foreign = NoForeign
  /\ panel = NoPanel
  /\ workspace = NoWorkspace
  /\ link = NoLink

\* a new session: activate constructs a new manager, whose constructor
\* runs loadReferences on the file as it is
Restart ==
  /\ Ready
  /\ references' = loadReferences(file)
  /\ lastOp' = Op("load", NoId, "", <<>>, FALSE, "none", NoRecord)
  /\ UNCHANGED <<file, clock, writeFails>>

\* -------------------------------------------------------------- commands
\* an add whose save has no try/catch: a failed write throws out of
\* addReference after the push, and nothing is returned
Add_Unguarded(reference) ==
  \/ /\ Ready
     /\ ~IsArray(references)
     /\ lastOp' = Call("addReference", reference, NoId, "", <<>>, TRUE,
                       "none", NoRecord)
     /\ UNCHANGED <<references, file, clock, writeFails>>
  \/ /\ Ready
     /\ IsArray(references)
     /\ Len(references.items) < MaxRefs
     /\ \E now \in ClockReads(clock) : \E stamp \in ClockReads(now) :
        \E rnd \in RandomSuffixes : \E ok \in WriteOutcomes :
          LET items == addReference(references.items, reference,
                                    now, stamp, rnd)
          IN  /\ references' = ArrayOf(items)
              /\ file' = saveReferences(items, ok)
              /\ CountWrite(ok)
              /\ clock' = stamp
              /\ lastOp' = Call("addReference", reference, NoId, "",
                                <<>>, ~ok, Wrote(ok),
                                IF ok THEN items[Len(items)] ELSE NoRecord)

\* the body shared by the add commands: addReference, then saveReferences
Add(reference) ==
  \/ /\ Ready
     /\ ~IsArray(references)
     /\ lastOp' = Call("addReference", reference, NoId, "", <<>>, TRUE,
                       "none", NoRecord)
     /\ UNCHANGED <<references, file, clock, writeFails>>
  \/ /\ Ready
     /\ IsArray(references)
     /\ Len(references.items) < MaxRefs
     /\ \E now \in ClockReads(clock) : \E stamp \in ClockReads(now) :
        \E rnd \in RandomSuffixes : \E ok \in WriteOutcomes :
          LET items == addReference(references.items, reference,
                                    now, stamp, rnd)
          IN  /\ references' = ArrayOf(items)
              /\ file' = saveReferences(items, ok)
              /\ CountWrite(ok)
              /\ clock' = stamp
              /\ lastOp' = Call("addReference", reference, NoId, "",
                                <<>>, FALSE, Wrote(ok), items[Len(items)])

\* path.basename of the one file path of the model
Basename(filePath) == "b.ts"

\* file-ref-tags.addCurrentFile, with an active editor
AddCurrentFile ==
  \E filePath \in FilePaths :
    Add([type |-> "file", title |-> Basename(filePath),
         filePath |-> filePath, snippet |-> Undefined])

\* file-ref-tags.addFileAndSnippet, with a non-empty selection
AddFileAndSnippet ==
  \E filePath \in FilePaths : \E snippet \in Snippets :
    Add([type |-> "file-snippet", title |-> "b.ts: foo()",
         filePath |-> filePath, snippet |-> snippet])

\* ------------------------------------------------------- panel messages
\* the orders the panel sends: handleDrop maps its list items to their
\* data-id, one entry per item, so an id is named once; the list may be
\* stale, so ids that are not (or no longer) stored occur too
OrderRequests ==
  {o \in SeqsUpTo(Ids, MaxOrderLen) : Cardinality(Range(o)) = Len(o)}

\* dataManager.updateOrder(newOrder), then saveReferences
CallUpdateOrder(newOrder) ==
  \/ Raise("updateOrder", NoId, "", newOrder)
  \/ /\ Ready
     /\ IsArray(references)
     /\ \E ok \in WriteOutcomes :
          LET items == updateOrder(references.items, newOrder)
          IN  /\ references' = ArrayOf(items)
              /\ file' = saveReferences(items, ok)
              /\ CountWrite(ok)
              /\ lastOp' = Op("updateOrder", NoId, "", newOrder, FALSE,
                              Wrote(ok), NoRecord)
              /\ UNCHANGED clock

\* message updateOrder: dataManager.updateOrder(message.order)
MsgUpdateOrder == \E newOrder \in OrderRequests : CallUpdateOrder(newOrder)

\* the orders a list with two items of one id sends: handleDrop maps every
\* item to its data-id, so the id is named once per item
RepeatingOrders == SeqsUpTo(Ids, MaxOrderLen) \ OrderRequests

\* message updateOrder with an order that names an id more than once
MsgUpdateOrderRepeating ==
  \E newOrder \in RepeatingOrders : CallUpdateOrder(newOrder)

\* message deleteReference: dataManager.deleteReference(message.id)
MsgDeleteReference ==
  \E id \in Ids :
    \/ Raise("deleteReference", id, "", <<>>)
    \/ /\ Ready
       /\ IsArray(references)
       /\ \E ok \in WriteOutcomes :
            LET items == deleteReference(references.items, id)
            IN  /\ references' = ArrayOf(items)
                /\ file' = saveReferences(items, ok)
                /\ CountWrite(ok)
                /\ lastOp' = Op("deleteReference", id, "", <<>>, FALSE,
                                Wrote(ok), NoRecord)
                /\ UNCHANGED clock

\* message updateReferenceTitle: the save runs only when the id was found
MsgUpdateReferenceTitle ==
  \E id \in Ids : \E title \in NewTitles :
    \/ Raise("updateReferenceTitle", id, title, <<>>)
    \/ /\ Ready
       /\ IsArray(references)
       /\ Find(references.items, id) = NoRecord
       /\ lastOp' = Op("updateReferenceTitle", id, title, <<>>, FALSE,
                       "none", NoRecord)
       /\ UNCHANGED <<references, file, clock, writeFails>>
    \/ /\ Ready
       /\ IsArray(references)
       /\ Find(references.items, id) # NoRecord
       /\ \E now \in ClockReads(clock) : \E ok \in WriteOutcomes :
            LET items == updateReferenceTitle(references.items, id,
                                              title, now)
            IN  /\ references' = ArrayOf(items)
                /\ file' = saveReferences(items, ok)
                /\ CountWrite(ok)
                /\ clock' = now
                /\ lastOp' = Op("updateReferenceTitle", id, title, <<>>,
                                FALSE, Wrote(ok),
                                NoRecord)

\* ------------------------------------------------------------ the panel
\* resolveWebviewView: the view is kept in _webviewView
ResolveWebviewView ==
  /\ Ready
  /\ ~panel.view
  /\ panel' = [panel EXCEPT !.view = TRUE]
  /\ UNCHANGED <<references, file, clock, writeFails, lastOp,
                 scan, listed, foreign, envVars>>

\* what postMessage delivers: the message as JSON
UpdateReferences(items) ==
  [view |-> TRUE, posted |-> TRUE, references |-> Stringify(items)]

\* a _sendReferences that posts the list as it was when the handler began
SendReferences_Stale ==
  panel' = IF panel.view /\ ~lastOp'.raised
           THEN UpdateReferences(getReferences(references.items))
           ELSE panel

\* _sendReferences (notifyUpdate), reached when the call on the store
\* before it has returned: posts getReferences() when the view is resolved
SendReferences ==
  panel' = IF panel.view /\ ~lastOp'.raised
           THEN UpdateReferences(getReferences(references'.items))
           ELSE panel

\* the end of a step of a scan: notifyUpdate when the step has added a
\* record
NotifyUpdate ==
  IF lastOp' # lastOp THEN SendReferences ELSE UNCHANGED panel

\* ---------------------------------------------------- commands and scans
storeVars == <<references, file, clock, writeFails, lastOp>>

\* a handler starts when the host is idle and the scan or jump that has
\* just ended has returned
Idle == Ready /\ scan.pc \notin {"done", "jumped"}

\* what the user may type into the input box of addComment
Comments == {" note "}

\* String.prototype.trim on the comments of the model
Trim(comment) ==
  CASE comment = " note " -> "note"
    [] OTHER -> comment

\* file-ref-tags.addComment, with the input box confirmed (validateInput
\* lets no empty comment through)
AddComment ==
  \E comment \in Comments :
    Add([type |-> "comment", title |-> Trim(comment),
         filePath |-> Undefined, snippet |-> Undefined])

\* snippet.substring(0, 50) + (snippet.length > 50 ? '...' : ''), for the
\* snippets of the model, which are shorter than 50 characters
Preview(snippet) == snippet

\* a global-snippet literal that also names a file
GlobalSnippetReference_WithPath(snippet) ==
  [type |-> "global-snippet", title |-> Preview(snippet),
   filePath |-> "/a/b.ts", snippet |-> snippet]

\* the object addGlobalUniqueSnippet passes to addReference
GlobalSnippetReference(snippet) ==
  [type |-> "global-snippet", title |-> Preview(snippet),
   filePath |-> Undefined, snippet |-> snippet]

\* an end of the scan at which a jump that has not found its snippet
\* takes the record out of the collection
ScanEnds_Forgets(s) ==
  IF s.purpose = "add"
  THEN IF s.matchCount # 1
       THEN /\ scan' = [s EXCEPT !.pc = "done", !.shown = "rejected"]
            /\ UNCHANGED storeVars
       ELSE /\ Add(GlobalSnippetReference(s.snippet))
            /\ scan' = [s EXCEPT !.pc = "done",
                                 !.shown = IF IsArray(references)
                                           THEN "added" ELSE "failed"]
  ELSE /\ scan' = [s EXCEPT
                     !.pc = "done",
                     !.shown = CASE s.matchCount = 1 -> "selection"
                                 [] s.matchCount = 0 -> "not-found"
                                 [] OTHER -> "not-unique"]
       /\ references' =
            IF s.purpose = "jump" /\ s.matchCount = 0
            THEN ArrayOf(deleteReference(references.items, s.id))
            ELSE references
       /\ UNCHANGED <<file, clock, writeFails, lastOp>>

\* the code after the loop.  addGlobalUniqueSnippet: an error message
\* unless matchCount is 1, else addReference, whose throw the handler's
\* catch turns into the message that the search failed.  The jumps: the
\* range selected in the matching file (showTextDocument opens the
\* document the loop has just opened), or one of two warnings.
ScanEnds(s) ==
  IF s.purpose = "add"
  THEN IF s.matchCount # 1
       THEN /\ scan' = [s EXCEPT !.pc = "done", !.shown = "rejected"]
            /\ UNCHANGED storeVars
       ELSE /\ Add(GlobalSnippetReference(s.snippet))
            /\ scan' = [s EXCEPT !.pc = "done",
                                 !.shown = IF IsArray(references)
                                           THEN "added" ELSE "failed"]
  ELSE /\ scan' = [s EXCEPT
                     !.pc = "done",
                     !.shown = CASE s.matchCount = 1 -> "selection"
                                 [] s.matchCount = 0 -> "not-found"
                                 [] OTHER -> "not-unique"]
       /\ UNCHANGED storeVars

\* a loop that calls openTextDocument on all the files left and awaits
\* them together
Suspend_FanOut(s) ==
  [s EXCEPT !.pending = {s.files[k] : k \in (s.i + 1)..Len(s.files)}]

\* the next turn of the loop: await openTextDocument(file) calls it on the
\* next file and suspends the handler until it has come back
Suspend(s) == [s EXCEPT !.pending = @ \cup {s.files[s.i + 1]}]

\* the handler goes on after an await: it suspends at the next
\* openTextDocument or runs to its end
Resume(s) ==
  IF Continue(s)
  THEN scan' = Suspend(s) /\ UNCHANGED storeVars
  ELSE ScanEnds(s)

\* file-ref-tags.addGlobalUniqueSnippet, with a non-empty selection, up to
\* its first openTextDocument
AddGlobalUniqueSnippet ==
  \E snippet \in Snippets : \E files \in FileLists :
    /\ Idle
    /\ scan.pc = "none"
    /\ Resume(NewScan("add", snippet, NoId, files))
    /\ NotifyUpdate
    /\ UNCHANGED <<listed, foreign, envVars>>

\* message jumpToReference for a global-snippet record, up to its first
\* openTextDocument; getReferences is called before the try, so its throw
\* leaves _jumpToReference as a rejected promise nobody handles
MsgJumpToReference ==
  \E id \in Ids : \E files \in FileLists :
    \/ /\ Raise("jumpToReference", id, "", <<>>)
       /\ scan.pc # "done"
       /\ UNCHANGED hostVars
    \/ /\ Idle
       /\ scan.pc = "none"
       /\ IsArray(references)
       /\ LET reference == Find(getReferences(references.items), id)
          IN  /\ reference.type = "global-snippet"
              /\ reference.snippet # Undefined
              /\ Resume(NewScan("jump", reference.snippet, id, files))
       /\ UNCHANGED <<listed, foreign, panel, envVars>>
    \/ /\ Idle
       /\ scan.pc = "none"
       /\ IsArray(references)
       /\ files = <<>>
       /\ LET reference == Find(getReferences(references.items), id)
          IN  /\ reference.type = "file-snippet"
              /\ reference.filePath # Undefined
              /\ reference.snippet # Undefined
              /\ scan' = [NoScan EXCEPT !.pc = "show",
                                        !.purpose = "file-snippet",
                                        !.snippet = reference.snippet,
                                        !.id = id, !.files = <<1>>]
       /\ UNCHANGED <<storeVars, listed, foreign, panel, envVars>>

\* a jump that selects the start of the file when the snippet is gone
SelectSnippet_NoWarning(s, doc) ==
  LET snippet == Chars(s.snippet)
      index == IF doc.readable THEN IndexOf(doc.text, snippet) ELSE -1
      start == IF index = -1 THEN 0 ELSE index
  IN  [s EXCEPT
         !.pc = "jumped",
         !.opened = <<1>>,
         !.docs = <<doc>>,
         !.matchStartPosition =
            IF doc.readable THEN PositionAt(doc.text, start) ELSE @,
         !.matchEndPosition =
            IF doc.readable THEN PositionAt(doc.text, start + Len(snippet))
            ELSE @,
         !.shown = IF doc.readable THEN "selection" ELSE "error"]

\* _jumpToReference, case 'file-snippet', after showTextDocument(uri): the
\* range of the first occurrence of the snippet in the text of the editor's
\* document is selected, or a warning says that the snippet is no longer
\* in the file; a showTextDocument that throws ends in the outer catch,
\* which shows an error
SelectSnippet(s, doc) ==
  LET snippet == Chars(s.snippet)
      index == IF doc.readable THEN IndexOf(doc.text, snippet) ELSE -1
  IN  [s EXCEPT
         !.pc = "jumped",
         !.opened = <<1>>,
         !.docs = <<doc>>,
         !.matchStartPosition =
            IF index # -1 THEN PositionAt(doc.text, index) ELSE @,
         !.matchEndPosition =
            IF index # -1 THEN PositionAt(doc.text, index + Len(snippet))
            ELSE @,
         !.shown = IF ~doc.readable THEN "error"
                   ELSE IF index # -1 THEN "selection" ELSE "snippet-gone"]

\* the showTextDocument a jump to a file-snippet record is suspended at
\* returns the editor or throws
ShowTextDocumentReturns ==
  /\ Ready
  /\ scan.pc = "show"
  /\ \E doc \in Documents : scan' = SelectSnippet(scan, doc)
  /\ UNCHANGED <<storeVars, listed, foreign, panel, envVars>>

\* handleUri for a link that carries a snippet and no filePath:
\* jumpToGlobalSnippet, up to its first openTextDocument
HandleUri ==
  \E snippet \in Snippets : \E files \in FileLists :
    /\ Idle
    /\ scan.pc = "none"
    /\ Resume(NewScan("uri", snippet, NoId, files))
    /\ UNCHANGED <<listed, foreign, panel, envVars>>

\* the openTextDocument a scan is suspended at returns or throws, and the
\* handler goes on from there
OpenTextDocumentReturns ==
  /\ Ready
  /\ scan.pc = "open"
  /\ \E doc \in Documents :
       LET uri == scan.files[scan.i + 1]
       IN  Resume(Visit([scan EXCEPT !.pending = @ \ {uri}], uri, doc))
  /\ NotifyUpdate
  /\ UNCHANGED <<listed, foreign, envVars>>

\* --------------------------------------------------- getReferences callers
\* [...this.references]: an array of its own, holding the same objects
SpreadCopy(items) ==
  [given |-> TRUE, own |-> FALSE, items |-> getReferences(items)]

\* message getReferences: _sendReferences calls getReferences and posts
\* what it returns; spreading a value that is no array throws
MsgGetReferences ==
  \/ /\ Raise("getReferences", NoId, "", <<>>)
     /\ scan.pc # "done"
     /\ UNCHANGED hostVars
  \/ /\ Idle
     /\ IsArray(references)
     /\ listed' = SpreadCopy(references.items)
     /\ lastOp' = Op("getReferences", NoId, "", <<>>, FALSE, "none",
                     NoRecord)
     /\ panel' = IF panel.view THEN UpdateReferences(listed'.items)
                  ELSE panel
     /\ UNCHANGED <<references, file, clock, writeFails, scan, foreign,
                    envVars>>

\* a record a caller may put into an array it holds
StrayRecord == [NoRecord EXCEPT !.type = "comment", !.title = "stray"]

\* the arrays push, shift and reverse make of an array
ChangedLists(items) ==
  {Append(items, StrayRecord)}
    \cup (IF items = <<>> THEN {}
          ELSE {Tail(items),
                [i \in DOMAIN items |-> items[Len(items) + 1 - i]]})

\* the caller of getReferences changes the array it was given; when that
\* array is the manager's own, the manager sees the change
CallerChangesList ==
  /\ lastOp.op = "getReferences"
  /\ ~lastOp.raised
  /\ listed.given
  /\ \E items \in ChangedLists(listed.items) :
       /\ listed' = [listed EXCEPT !.items = items]
       /\ references' = IF listed.own THEN ArrayOf(items) ELSE references
  /\ lastOp' = Op("listChanged", NoId, "", <<>>, FALSE, "none", NoRecord)
  /\ UNCHANGED <<file, clock, writeFails, scan, foreign, panel, envVars>>

\* ------------------------------------------------------ another writer
\* the record another instance of the extension has saved
ForeignRecord ==
  [obj |-> 1, id |-> [t |-> 1, r |-> "k3x9q"], type |-> "file",
   title |-> "other.ts", filePath |-> "/a/b.ts", snippet |-> Undefined,
   createdAt |-> 1, updatedAt |-> 1]

\* the documents another writer leaves in the file
ExternalDocs == {ArrayDoc(Stringify(<<ForeignRecord>>))}

\* another writer replaces the file; the manager is not told
ExternalWrite ==
  /\ Idle
  /\ foreign.writes < MaxExternalWrites
  /\ \E doc \in ExternalDocs : file' = doc /\ file' # file
  /\ foreign' = [writes |-> foreign.writes + 1, unseen |-> TRUE]
  /\ UNCHANGED <<references, clock, writeFails, lastOp, scan, listed,
                 panel, envVars>>

\* the handler (or the constructor) has returned; the extension host
\* waits for the next command or message.  After an activate that threw
\* there are no handlers to wait for.
HandlerReturns ==
  /\ ~Ready
  /\ ~(lastOp.op = "load" /\ lastOp.raised)
  /\ lastOp' = Op("idle", NoId, "", <<>>, FALSE, "none", NoRecord)
  /\ UNCHANGED <<references, file, clock, writeFails>>

Next ==
  \/ HandlerReturns /\ UNCHANGED hostVars
  \/ Restart /\ UNCHANGED hostVars
  \/ AddCurrentFile /\ UNCHANGED hostVars
  \/ AddFileAndSnippet /\ UNCHANGED hostVars
  \/ MsgUpdateOrder /\ UNCHANGED hostVars
  \/ MsgDeleteReference /\ UNCHANGED hostVars
  \/ MsgUpdateReferenceTitle /\ UNCHANGED hostVars

Spec == Init /\ [][Next]_vars

\* ------------------------------------------- SpecWorkspace, SpecCallers
\* a session in which no write fails and the clock stands at MaxTime; the
\* file is absent or holds {}
InitSession ==
  /\ file \in {NoFile, ObjectDoc}
  /\ references = loadReferences(file)
  /\ clock = MaxTime
  /\ writeFails = MaxWriteFails
  /\ lastOp = Op("load", NoId, "", <<>>, FALSE, "none", NoRecord)
  /\ scan = NoScan
  /\ listed = NoList
  /\ foreign = NoForeign
  /\ panel = NoPanel
  /\ workspace = NoWorkspace
  /\ link = NoLink

\* a handler that called the store has returned; a scan that has ended
\* returns with it, and the array the caller held is dropped
HandlerReturnsSession ==
  /\ HandlerReturns
  /\ scan' = IF scan.pc = "done" THEN NoScan ELSE scan
  /\ listed' = NoList
  /\ UNCHANGED <<foreign, panel, envVars>>

\* a scan or a jump that ended without a call on the store has returned
ScanReturns ==
  /\ Ready
  /\ scan.pc \in {"done", "jumped"}
  /\ scan' = NoScan
  /\ UNCHANGED <<storeVars, listed, foreign, panel, envVars>>

\* what the handlers of a session leave alone when they call the store
sessionVars == <<scan, listed, foreign, envVars>>

\* a handler that runs while the add command's scan is suspended
Overtakes ==
  scan' = IF scan.purpose = "add" /\ scan.pc = "open"
             /\ references' # references
          THEN [scan EXCEPT !.overtaken = TRUE]
          ELSE scan

\* what a handler running beside a scan leaves alone
besideVars == <<listed, foreign, envVars>>

\* the panel is up to date: its messages name ids of stored records
\* (Spec has the messages of a panel whose list is stale)
NamesStoredIds ==
  /\ Range(lastOp'.order) \subseteq {references.items[i].id :
                                       i \in DOMAIN references.items}
  /\ lastOp'.id \in {NoId} \cup {references.items[i].id :
                                   i \in DOMAIN references.items}

\* a new session: the scan of the old one is gone, its view is not
\* resolved yet, and the file is read as the other writer left it
RestartSession ==
  /\ Idle
  /\ Restart
  /\ scan' = NoScan
  /\ foreign' = [foreign EXCEPT !.unseen = FALSE]
  /\ panel' = NoPanel
  /\ UNCHANGED <<listed, envVars>>

NextWorkspace ==
  \/ HandlerReturnsSession
  \/ ScanReturns
  \/ RestartSession
  \/ ResolveWebviewView
  \/ /\ Idle /\ AddCurrentFile
     /\ SendReferences /\ Overtakes /\ UNCHANGED besideVars
  \/ /\ Idle /\ AddFileAndSnippet
     /\ SendReferences /\ Overtakes /\ UNCHANGED besideVars
  \/ /\ Idle /\ AddComment
     /\ SendReferences /\ Overtakes /\ UNCHANGED besideVars
  \/ AddGlobalUniqueSnippet
  \/ OpenTextDocumentReturns
  \/ ShowTextDocumentReturns
  \/ panel.view /\ MsgJumpToReference
  \/ HandleUri
  \/ /\ Idle /\ panel.view
     /\ MsgUpdateOrder /\ NamesStoredIds
     /\ SendReferences /\ Overtakes /\ UNCHANGED besideVars
  \/ /\ Idle /\ panel.view
     /\ MsgDeleteReference /\ NamesStoredIds
     /\ SendReferences /\ Overtakes /\ UNCHANGED besideVars
  \/ /\ Idle /\ panel.view
     /\ MsgUpdateReferenceTitle /\ NamesStoredIds
     /\ SendReferences /\ Overtakes /\ UNCHANGED besideVars

SpecWorkspace == InitSession /\ [][NextWorkspace]_vars

NextCallers ==
  \/ HandlerReturnsSession
  \/ RestartSession
  \/ ResolveWebviewView
  \/ AddCurrentFile /\ SendReferences /\ UNCHANGED sessionVars
  \/ AddComment /\ SendReferences /\ UNCHANGED sessionVars
  \/ panel.view /\ MsgUpdateOrder /\ SendReferences /\ UNCHANGED sessionVars
  \/ /\ panel.view /\ MsgDeleteReference
     /\ SendReferences /\ UNCHANGED sessionVars
  \/ /\ panel.view /\ MsgUpdateReferenceTitle
     /\ SendReferences /\ UNCHANGED sessionVars
  \/ panel.view /\ MsgGetReferences
  \/ CallerChangesList
  \/ ExternalWrite

SpecCallers == InitSession /\ [][NextCallers]_vars

\* ------------------------------------------------------------ SpecReorder
\* the panel's reorder and delete messages, orders that repeat an id
\* included, on the records two add commands make
NextReorder ==
  \/ HandlerReturnsSession
  \/ ResolveWebviewView
  \/ AddCurrentFile /\ SendReferences /\ UNCHANGED sessionVars
  \/ AddComment /\ SendReferences /\ UNCHANGED sessionVars
  \/ panel.view /\ MsgUpdateOrder /\ SendReferences /\ UNCHANGED sessionVars
  \/ /\ panel.view /\ MsgUpdateOrderRepeating
     /\ SendReferences /\ UNCHANGED sessionVars
  \/ /\ panel.view /\ MsgDeleteReference
     /\ SendReferences /\ UNCHANGED sessionVars

SpecReorder == InitSession /\ [][NextReorder]_vars

\* -------------------------------------------------------------- SpecEdits
\* the files of the workspace whose document holds the snippet
Holders(docs, snippet) ==
  {k \in DOMAIN docs :
     docs[k].readable /\ Includes(docs[k].text, Chars(snippet))}

\* the workspaces in which exactly one file holds the snippet
Corpora ==
  {w \in UNION {[1..n -> Documents] : n \in 1..MaxFiles} :
     \A snippet \in Snippets : Cardinality(Holders(w, snippet)) = 1}

\* a session on an empty store, in a workspace of Corpora
InitEdits ==
  /\ file = NoFile
  /\ references = loadReferences(file)
  /\ clock = MaxTime
  /\ writeFails = MaxWriteFails
  /\ lastOp = Op("load", NoId, "", <<>>, FALSE, "none", NoRecord)
  /\ scan = NoScan
  /\ listed = NoList
  /\ foreign = NoForeign
  /\ panel = NoPanel
  /\ workspace \in Corpora
  /\ link = NoLink

\* findFiles returns the files the workspace has when the handler starts
FindsWorkspaceFiles == scan'.files = [k \in DOMAIN workspace |-> k]

\* openTextDocument returns the document the file has when it is opened,
\* or throws when there is no such file
ReadsWorkspace ==
  scan'.docs[Len(scan.docs) + 1] = workspace[scan.files[scan.i + 1]]

\* the user changes the text of one file, or makes it unreadable, in a way
\* that leaves the snippet in exactly one file
EditDocument ==
  /\ Ready
  /\ \E k \in DOMAIN workspace : \E doc \in Documents :
       workspace' = [workspace EXCEPT ![k] = doc]
  /\ workspace' # workspace
  /\ workspace' \in Corpora
  /\ UNCHANGED <<storeVars, scan, listed, foreign, panel, link>>

\* a file is renamed onto another one (rename replaces its target in one
\* step): the target has the source's text, the source is gone; the
\* snippet is still in exactly one file
RenameFile ==
  /\ Ready
  /\ \E from \in DOMAIN workspace : \E to \in DOMAIN workspace \ {from} :
       workspace' = [workspace EXCEPT ![to] = workspace[from],
                                      ![from] = Unreadable]
  /\ workspace' # workspace
  /\ workspace' \in Corpora
  /\ UNCHANGED <<storeVars, scan, listed, foreign, panel, link>>

NextEdits ==
  \/ HandlerReturnsSession
  \/ ScanReturns
  \/ AddGlobalUniqueSnippet /\ FindsWorkspaceFiles
  \/ HandleUri /\ FindsWorkspaceFiles
  \/ OpenTextDocumentReturns /\ ReadsWorkspace
  \/ EditDocument
  \/ RenameFile

SpecEdits == InitEdits /\ [][NextEdits]_vars

\* ------------------------------------------------------------------ links
\* the characters of the file names and snippets that are copied as links;
\* a text is a sequence of characters
Alphabet == {"x", " ", "%", "4", "1"}

Texts(n) == UNION {[1..k -> Alphabet] : k \in 1..n}

\* a parameter that is undefined or null
NoText == <<Undefined>>

\* the hexadecimal digits that occur in the links of these texts
HexDigits == {"1", "2", "4", "5"}

\* the character with code 0xh1h2
CharOfCode(h1, h2) ==
  CASE <<h1, h2>> = <<"1", "1">> -> "\\u0011"
    [] <<h1, h2>> = <<"1", "2">> -> "\\u0012"
    [] <<h1, h2>> = <<"1", "4">> -> "\\u0014"
    [] <<h1, h2>> = <<"1", "5">> -> "\\u0015"
    [] <<h1, h2>> = <<"2", "1">> -> "!"
    [] <<h1, h2>> = <<"2", "2">> -> "\""
    [] <<h1, h2>> = <<"2", "4">> -> "$"
    [] <<h1, h2>> = <<"2", "5">> -> "%"
    [] <<h1, h2>> = <<"4", "1">> -> "A"
    [] <<h1, h2>> = <<"4", "2">> -> "B"
    [] <<h1, h2>> = <<"4", "4">> -> "D"
    [] <<h1, h2>> = <<"4", "5">> -> "E"
    [] <<h1, h2>> = <<"5", "1">> -> "Q"
    [] <<h1, h2>> = <<"5", "2">> -> "R"
    [] <<h1, h2>> = <<"5", "4">> -> "T"
    [] <<h1, h2>> = <<"5", "5">> -> "U"

\* a percent sign followed by two hexadecimal digits
EscapeAt(t) ==
  /\ Len(t) >= 3
  /\ t[1] = "%"
  /\ t[2] \in HexDigits
  /\ t[3] \in HexDigits

\* URLSearchParams.toString() for one value (application/x-www-form-
\* urlencoded): letters and digits as they are, the space as "+", the
\* percent sign as "%25"
RECURSIVE Serialize(_)
Serialize(t) ==
  IF t = <<>> THEN <<>>
  ELSE (CASE Head(t) = " " -> <<"+">>
          [] Head(t) = "%" -> <<"%", "2", "5">>
          [] OTHER -> <<Head(t)>>) \o Serialize(Tail(t))

\* new URLSearchParams(query).get(name) for one value: "+" is a space, an
\* escape is the character it stands for, any other percent sign is left
\* as it is
RECURSIVE ParseValue(_)
ParseValue(t) ==
  IF t = <<>> THEN <<>>
  ELSE IF EscapeAt(t)
       THEN <<CharOfCode(t[2], t[3])>> \o ParseValue(SubSeq(t, 4, Len(t)))
       ELSE <<IF Head(t) = "+" THEN " " ELSE Head(t)>>
              \o ParseValue(Tail(t))

\* what decodeURIComponent makes of a percent sign that starts no escape
URIError == <<"URIError">>

\* decodeURIComponent: an escape is the character it stands for; a percent
\* sign that starts no escape throws URIError
RECURSIVE DecodeURIComponent(_)
DecodeURIComponent(t) ==
  IF t = <<>> THEN <<>>
  ELSE IF Head(t) = "%"
       THEN IF ~EscapeAt(t) THEN URIError
            ELSE LET rest == DecodeURIComponent(SubSeq(t, 4, Len(t)))
                 IN  IF rest = URIError THEN URIError
                     ELSE <<CharOfCode(t[2], t[3])>> \o rest
       ELSE LET rest == DecodeURIComponent(Tail(t))
            IN  IF rest = URIError THEN URIError ELSE <<Head(t)>> \o rest

\* generateVscodeLink: the query of the link, a sequence of name=value
\* pairs joined by "&"; a parameter that is undefined or empty is left
\* out
generateVscodeLink(filePath, snippet) ==
  LET fp == IF filePath # NoText /\ filePath # <<>>
            THEN <<"filePath", "=">> \o Serialize(filePath) ELSE <<>>
      sn == IF snippet # NoText /\ snippet # <<>>
            THEN <<"snippet", "=">> \o Serialize(snippet) ELSE <<>>
  IN  IF fp # <<>> /\ sn # <<>> THEN fp \o <<"&">> \o sn ELSE fp \o sn

\* the name=value pairs of a query: the pieces between the "&"
RECURSIVE Pairs(_)
Pairs(query) ==
  IF query = <<>> THEN <<>>
  ELSE LET amps == {k \in DOMAIN query : query[k] = "&"}
           cut == IF amps = {} THEN Len(query) + 1
                  ELSE CHOOSE k \in amps : \A m \in amps : k <= m
       IN  <<SubSeq(query, 1, cut - 1)>>
             \o Pairs(SubSeq(query, cut + 1, Len(query)))

\* URLSearchParams.get(name): the parsed value of the first pair with that
\* name, or null
Get(query, name) ==
  LET pairs == Pairs(query)
      named == {k \in DOMAIN pairs :
                  /\ Len(pairs[k]) >= 2
                  /\ pairs[k][1] = name
                  /\ pairs[k][2] = "="}
  IN  IF named = {} THEN NoText
      ELSE LET k == CHOOSE n \in named : \A m \in named : n <= m
           IN  ParseValue(SubSeq(pairs[k], 3, Len(pairs[k])))

\* !v for a string, undefined or null
Falsy(v) == v = NoText \/ v = <<>>

\* a link has been copied: what generateVscodeLink was given and the
\* query it returned
Copied(filePath, snippet) ==
  [pc |-> "copied", filePath |-> filePath, snippet |-> snippet,
   query |-> generateVscodeLink(filePath, snippet)]

\* file-ref-tags.copyLinkSnippetOnly, with a non-empty selection
CopyLinkSnippetOnly ==
  /\ Ready
  /\ link.pc = "none"
  /\ \E snippet \in Texts(MaxTextLen) : link' = Copied(NoText, snippet)
  /\ UNCHANGED <<storeVars, scan, listed, foreign, panel, workspace>>

\* file-ref-tags.copyLinkFileNameOnly, with an active editor
CopyLinkFileNameOnly ==
  /\ Ready
  /\ link.pc = "none"
  /\ \E fileName \in Texts(MaxNameLen) : link' = Copied(fileName, NoText)
  /\ UNCHANGED <<storeVars, scan, listed, foreign, panel, workspace>>

\* file-ref-tags.copyLinkFileNameAndSnippet, with a non-empty selection
\* (copyLinkParentDirAndSnippet and copyLinkWorkspacePathAndSnippet differ
\* in the path they pass)
CopyLinkFileNameAndSnippet ==
  /\ Ready
  /\ link.pc = "none"
  /\ \E fileName \in Texts(MaxNameLen) : \E snippet \in Texts(MaxTextLen) :
       link' = Copied(fileName, snippet)
  /\ UNCHANGED <<storeVars, scan, listed, foreign, panel, workspace>>

\* handleUri up to the jump it dispatches: the query of the copied link
\* is parsed, each parameter found is passed through decodeURIComponent,
\* and the parameters decide the jump; the catch shows an error
HandleUriDecodes ==
  /\ Ready
  /\ link.pc = "copied"
  /\ LET filePath == Get(link.query, "filePath")
         snippet == Get(link.query, "snippet")
         decodedFilePath == IF Falsy(filePath) THEN NoText
                            ELSE DecodeURIComponent(filePath)
         decodedSnippet == IF Falsy(snippet) THEN NoText
                           ELSE DecodeURIComponent(snippet)
         mode == CASE Falsy(filePath) /\ Falsy(snippet) -> "missing"
                   [] URIError \in {decodedFilePath, decodedSnippet}
                        -> "error"
                   [] ~Falsy(decodedFilePath) /\ ~Falsy(decodedSnippet)
                        -> "jumpToFileAndSnippet"
                   [] ~Falsy(decodedFilePath) -> "jumpToFile"
                   [] ~Falsy(decodedSnippet) -> "jumpToGlobalSnippet"
                   [] OTHER -> "none"
         thrown == mode \in {"missing", "error"}
     IN  link' = [pc |-> "handled", filePath |-> link.filePath,
                  snippet |-> link.snippet, query |-> link.query,
                  mode |-> mode,
                  decodedFilePath |-> IF thrown THEN NoText
                                      ELSE decodedFilePath,
                  decodedSnippet |-> IF thrown THEN NoText
                                     ELSE decodedSnippet]
  /\ UNCHANGED <<storeVars, scan, listed, foreign, panel, workspace>>

NextLinks ==
  \/ HandlerReturnsSession
  \/ CopyLinkSnippetOnly
  \/ CopyLinkFileNameOnly
  \/ CopyLinkFileNameAndSnippet
  \/ HandleUriDecodes

SpecLinks == InitSession /\ [][NextLinks]_vars

\* -------------------------------------------------------------- SpecScans
\* the scans of the add command and of a link, with the add-comment
\* command running while they are suspended
NextScans ==
  \/ HandlerReturnsSession
  \/ ScanReturns
  \/ /\ Idle /\ AddComment
     /\ SendReferences /\ Overtakes /\ UNCHANGED besideVars
  \/ AddGlobalUniqueSnippet
  \/ HandleUri
  \/ OpenTextDocumentReturns

\* every openTextDocument that has been called returns or throws, and its
\* continuation runs when no handler is on the stack: a command that is
\* invoked over and over while the scan is suspended does not keep the
\* continuation from running, hence the strong fairness; a handler that is
\* running, being synchronous, returns
SpecScans ==
  /\ InitSession
  /\ [][NextScans]_vars
  /\ SF_vars(OpenTextDocumentReturns)
  /\ WF_vars(HandlerReturnsSession)

\* ================================================================ claims
StoreIds(items) == {items[i].id : i \in DOMAIN items}

\* the same record, whichever object holds it: all fields but obj
SameFields(a, b) ==
  /\ a.id = b.id /\ a.type = b.type /\ a.title = b.title
  /\ a.filePath = b.filePath /\ a.snippet = b.snippet
  /\ a.createdAt = b.createdAt /\ a.updatedAt = b.updatedAt

MutatingOps ==
  {"addReference", "deleteReference", "updateOrder", "updateReferenceTitle"}

\* new is old reordered by order: the named ids that are stored, in the
\* order given, then the records not named, as they were
Reordered(old, new, order) ==
  LET namedIds == SelectSeq(order, LAMBDA id : id \in StoreIds(old))
      k == Len(namedIds)
  IN  /\ Len(new) >= k
      /\ \A i \in 1..k : new[i].id = namedIds[i] /\ new[i] \in Range(old)
      /\ SubSeq(new, k + 1, Len(new))
           = SelectSeq(old, LAMBDA r : r.id \notin Range(order))

\* C1: after reorder(idSequence) the store holds the stored records named
\* by idSequence, in that order, then the records not named in their
\* previous relative order, and every record stored before the call is
\* still stored.
C1_ReorderKeepsEveryRecord ==
  [][(lastOp'.op = "updateOrder" /\ ~lastOp'.raised) =>
       /\ Reordered(references.items, references'.items, lastOp'.order)
       /\ Range(references.items) \subseteq Range(references'.items)]_vars

\* C2 as stated: after every add, delete, reorder or rename that returns
\* without a failed write, the file is the serialization of the in-memory
\* collection, calls naming an unknown id included.
C2_FileMirrorsStore ==
  (lastOp.op \in MutatingOps /\ ~lastOp.raised /\ lastOp.wrote # "failed")
    => file = ArrayDoc(Stringify(references.items))

\* C2 as amended: after every add, delete or reorder, and every rename of
\* an id that is stored, that returns without a failed write, the file is
\* the serialization of the in-memory collection in the same order; a
\* rename of an id that is not stored leaves the file as it was.
C2_FileMirrorsStoreAfterSave ==
  /\ [](( /\ lastOp.op \in MutatingOps
          /\ ~lastOp.raised
          /\ lastOp.wrote # "failed"
          /\ (lastOp.op = "updateReferenceTitle"
                => lastOp.id \in StoreIds(references.items)) )
        => file = ArrayDoc(Stringify(references.items)))
  /\ [][( /\ lastOp'.op = "updateReferenceTitle"
          /\ lastOp'.id \notin StoreIds(references.items) )
        => file' = file]_vars

\* a rename of a stored id has been saved, with two records in the store
C2_Witness ==
  /\ lastOp.op = "updateReferenceTitle"
  /\ lastOp.wrote = "ok"
  /\ Len(references.items) = 2
  /\ lastOp.id \in StoreIds(references.items)
  /\ writeFails = 1

\* C3: when the save of the last operation succeeded, a store constructed
\* from the file holds the same records, field by field, in the same order
\* as the in-memory collection.
C3_ReloadYieldsSameRecords ==
  lastOp.wrote = "ok" =>
    LET loaded == loadReferences(file)
    IN  /\ IsArray(loaded)
        /\ Len(loaded.items) = Len(references.items)
        /\ \A i \in DOMAIN references.items :
             SameFields(loaded.items[i], references.items[i])

\* a saved store of a renamed record with a snippet and one without
C3_Witness ==
  /\ lastOp.wrote = "ok"
  /\ Len(references.items) = 2
  /\ references.items[1].snippet # Undefined
  /\ references.items[2].snippet = Undefined
  /\ references.items[1].title \in NewTitles

\* C4: a startup that finds no file, or a file that does not parse, leaves
\* the store empty and does not raise; an unparsable file keeps its content
\* until a save succeeds.
C4_StartupEmptyOnMissingOrUnparsable ==
  /\ [](( /\ lastOp.op = "load"
          /\ file.kind \in {"absent", "unparsable"} )
        => (references = ArrayOf(<<>>) /\ ~lastOp.raised))
  /\ [][(file.kind = "unparsable" /\ file' # file)
        => lastOp'.wrote = "ok"]_vars

\* a restart on the unparsable file after a save of a record failed
C4_Witness ==
  /\ lastOp.op = "load"
  /\ file.kind = "unparsable"
  /\ writeFails = 1
  /\ references.items = <<>>

\* C5: a startup on a well-formed document that is no array of records
\* leaves the store as a parse failure does, holding the empty collection.
C5_IncompatibleLoadsAsParseFailure ==
  (lastOp.op = "load" /\ file.kind = "object")
    => references = loadReferences(Unparsable)

\* what call did to the collection old, seen through list()
EffectApplied(old, new, call) ==
  CASE call.op = "addReference" ->
         /\ new = Append(old, call.ret)
         /\ call.ret.type = call.reference.type
         /\ call.ret.title = call.reference.title
         /\ call.ret.filePath = call.reference.filePath
         /\ call.ret.snippet = call.reference.snippet
    [] call.op = "deleteReference" ->
         /\ call.id \notin StoreIds(new)
         /\ new = SelectSeq(old, LAMBDA r : r.id # call.id)
    [] call.op = "updateOrder" -> Reordered(old, new, call.order)
    [] call.op = "updateReferenceTitle" ->
         /\ Len(new) = Len(old)
         /\ \E i \in DOMAIN new :
              new[i].id = call.id /\ new[i].title = call.title
    [] OTHER -> FALSE

\* C6: a call whose write of the file fails does not raise, its effect is
\* in the collection list() returns, and add returns the record it made.
C6_FailedWriteKeepsEffect ==
  [][lastOp'.wrote = "failed" =>
       /\ ~lastOp'.raised
       /\ EffectApplied(references.items, getReferences(references'.items),
                        lastOp')]_vars

\* an add has returned its record although the file is still missing
C6_Witness ==
  /\ lastOp.op = "addReference"
  /\ lastOp.wrote = "failed"
  /\ file.kind = "absent"
  /\ Len(references.items) = 1
  /\ lastOp.ret = references.items[1]

\* C7: add always succeeds: it appends one record with the given kind,
\* title, filePath and snippet, a generated id and createdAt = updatedAt,
\* returns it, and leaves the records stored before as they were.
C7_AddAlwaysAppends ==
  [][lastOp'.op = "addReference" =>
       /\ ~lastOp'.raised
       /\ references'.items = Append(references.items, lastOp'.ret)
       /\ lastOp'.ret.type = lastOp'.reference.type
       /\ lastOp'.ret.title = lastOp'.reference.title
       /\ lastOp'.ret.filePath = lastOp'.reference.filePath
       /\ lastOp'.ret.snippet = lastOp'.reference.snippet
       /\ lastOp'.ret.id \in Ids
       /\ lastOp'.ret.createdAt = lastOp'.ret.updatedAt]_vars

\* C8: delete(id) removes the record with that id and leaves the others
\* and their order; for an id that is not stored it changes nothing and
\* raises no error.
C8_DeleteRemovesOnlyThatId ==
  [][lastOp'.op = "deleteReference" =>
       /\ ~lastOp'.raised
       /\ references'.items
            = SelectSeq(references.items, LAMBDA r : r.id # lastOp'.id)
       /\ (lastOp'.id \notin StoreIds(references.items)
             => references' = references)]_vars

\* C9: rename(id, newTitle) of a stored id sets that record's title and
\* its updatedAt to the current time and changes nothing else; for an id
\* that is not stored it changes nothing and raises no error.
C9_RenameChangesTitleOnly ==
  [][lastOp'.op = "updateReferenceTitle" =>
       /\ ~lastOp'.raised
       /\ IF lastOp'.id \in StoreIds(references.items)
          THEN \E i \in DOMAIN references.items :
                 /\ references.items[i].id = lastOp'.id
                 /\ DOMAIN references'.items = DOMAIN references.items
                 /\ references'.items[i]
                      = [references.items[i] EXCEPT
                           !.title = lastOp'.title, !.updatedAt = clock']
                 /\ \A j \in DOMAIN references.items :
                      references.items[j].obj # references.items[i].obj
                        => references'.items[j] = references.items[j]
          ELSE references' = references]_vars

\* C10: while a record is in the store, from the call that created it to
\* the call that deletes it, no call changes its id or its kind.
C10_IdAndKindNeverChange ==
  [][lastOp'.op \in MutatingOps =>
       \A i \in DOMAIN references.items :
         \A j \in DOMAIN references'.items :
           references.items[i].obj = references'.items[j].obj
             => /\ references'.items[j].id = references.items[i].id
                /\ references'.items[j].type = references.items[i].type]_vars

\* a file-snippet record has been renamed and a second record stands by
C10_Witness ==
  /\ lastOp.op = "updateReferenceTitle"
  /\ Len(references.items) = 2
  /\ \E i \in DOMAIN references.items :
       /\ references.items[i].id = lastOp.id
       /\ references.items[i].title = lastOp.title
       /\ references.items[i].type = "file-snippet"

\* the filePath and snippet a record of that kind carries
FieldsMatchKind(r) ==
  CASE r.type = "file" -> r.filePath # Undefined /\ r.snippet = Undefined
    [] r.type = "file-snippet" ->
         r.filePath # Undefined /\ r.snippet # Undefined
    [] r.type = "global-snippet" ->
         r.filePath = Undefined /\ r.snippet # Undefined
    [] r.type = "comment" -> r.filePath = Undefined /\ r.snippet = Undefined
    [] OTHER -> FALSE

\* C11: the record each of the four add commands creates carries filePath
\* and snippet as its kind says (file: filePath only; file-snippet: both;
\* global-snippet: snippet only; comment: neither), and so does every
\* record of the store after any renames, reorders, deletes, further adds
\* and reloads.
C11_FieldsMatchKind ==
  /\ \A i \in DOMAIN references.items :
       FieldsMatchKind(references.items[i])
  /\ (lastOp.op = "addReference" /\ ~lastOp.raised)
       => FieldsMatchKind(lastOp.ret)

\* a renamed global-snippet record and a comment, reordered
C11_Witness ==
  /\ lastOp.op = "updateOrder"
  /\ Len(references.items) = 2
  /\ references.items[1].type = "global-snippet"
  /\ references.items[1].title \in NewTitles
  /\ references.items[1].id = lastOp.order[1]
  /\ references.items[2].type = "comment"

\* C12: getReferences returns the records in store order in an array of
\* its own: the call leaves the collection and the file as they were, and
\* a caller that pushes to, removes from or reverses the array it was
\* given does not change what getReferences returns afterwards.
C12_ListReturnsCopy ==
  [][/\ lastOp'.op = "getReferences" =>
          /\ ~lastOp'.raised
          /\ listed'.given
          /\ listed'.items = references.items
          /\ references' = references
          /\ file' = file
     /\ lastOp'.op = "listChanged" =>
          getReferences(references'.items)
            = getReferences(references.items)]_vars

\* fragment occurs in text at offset k (0-based)
OccursAt(text, fragment, k) ==
  /\ k >= 0
  /\ k + Len(fragment) <= Len(text)
  /\ \A j \in 1..Len(fragment) : text[k + j] = fragment[j]

\* the positions in docs of the readable documents that contain the
\* snippet as a substring
Hits(docs, snippet) ==
  {k \in DOMAIN docs :
     /\ docs[k].readable
     /\ \E o \in 0..Len(docs[k].text) :
          OccursAt(docs[k].text, Chars(snippet), o)}

\* the three outcomes of a scan
Outcome(matchCount) ==
  CASE matchCount = 0 -> "NoMatch"
    [] matchCount = 1 -> "UniqueMatch"
    [] OTHER -> "AmbiguousMatch"

\* what the handler shows for each outcome
ShownFor(purpose, outcome) ==
  CASE purpose = "add" /\ outcome = "UniqueMatch" -> {"added", "failed"}
    [] purpose = "add" -> {"rejected"}
    [] outcome = "UniqueMatch" -> {"selection"}
    [] outcome = "NoMatch" -> {"not-found"}
    [] OTHER -> {"not-unique"}

\* C13: a scan ends in NoMatch when no readable member of the corpus
\* contains the fragment (the empty corpus included), in UniqueMatch when
\* exactly one does, however often, and in AmbiguousMatch when two or more
\* do; with fewer than two such members the whole corpus has been read.
C13_ScanClassifies ==
  scan.pc = "done" =>
    LET n == Cardinality(Hits(scan.docs, scan.snippet))
        outcome == Outcome(scan.matchCount)
    IN  /\ n = 0 => outcome = "NoMatch"
        /\ n = 1 => outcome = "UniqueMatch"
        /\ n >= 2 => outcome = "AmbiguousMatch"
        /\ n < 2 => Len(scan.docs) = Len(scan.files)
        /\ scan.shown \in ShownFor(scan.purpose, outcome)

\* the add command's scan found the fragment, twice, in one file of three
C13_Witness ==
  /\ scan.pc = "done"
  /\ scan.purpose = "add"
  /\ scan.docs = <<TextDocument(PlainText), TextDocument(MatchText),
                   Unreadable>>
  /\ scan.shown = "added"

\* the offset of a position: the offset its line starts at, plus its
\* character
OffsetAt(text, position) ==
  LET starts == {k \in 0..Len(text) :
                   /\ k = 0 \/ text[k] = "\n"
                   /\ Cardinality({j \in 1..k : text[j] = "\n"})
                        = position.line}
  IN  IF starts = {} THEN -1
      ELSE (CHOOSE k \in starts : TRUE) + position.character

\* C14: a scan that ends in UniqueMatch reports the one member that
\* contains the fragment, and a jump reports the range [s, s + length of
\* the fragment) for the offset s of the first occurrence in that member,
\* whatever the members read after it do.
C14_UniqueMatchIsFirstOccurrence ==
  (scan.pc = "done" /\ Outcome(scan.matchCount) = "UniqueMatch") =>
    /\ Hits(scan.docs, scan.snippet) = {scan.matchFile}
    /\ scan.opened[scan.matchFile] = scan.matchFile
    /\ scan.purpose # "add" =>
         LET text == scan.docs[scan.matchFile].text
             fragment == Chars(scan.snippet)
             from == OffsetAt(text, scan.matchStartPosition)
             to == OffsetAt(text, scan.matchEndPosition)
         IN  /\ OccursAt(text, fragment, from)
             /\ \A o \in 0..(from - 1) : ~OccursAt(text, fragment, o)
             /\ to = from + Len(fragment)

\* a jump selected the first occurrence in the first file; the files read
\* after it could not be opened or did not match
C14_Witness ==
  /\ scan.pc = "done"
  /\ scan.purpose = "jump"
  /\ scan.docs = <<TextDocument(MatchText), Unreadable,
                   TextDocument(PlainText)>>
  /\ scan.shown = "selection"
  /\ scan.matchStartPosition = [line |-> 1, character |-> 0]
  /\ scan.matchEndPosition = [line |-> 1, character |-> 5]

\* C15: a member whose open fails counts as not containing the fragment
\* and the scan goes on with the next member: a scan is never ended by a
\* failed open, and its outcome is that of the corpus without the members
\* that failed.
C15_FailedOpenIsSkipped ==
  /\ ( /\ scan.docs # <<>>
       /\ ~scan.docs[Len(scan.docs)].readable
       /\ Len(scan.docs) < Len(scan.files) )
     => scan.pc = "open"
  /\ scan.pc = "done" =>
       LET readable == SelectSeq(scan.docs, LAMBDA d : d.readable)
           n == Cardinality(Hits(readable, scan.snippet))
       IN  /\ Outcome(scan.matchCount) = Outcome(IF n > 2 THEN 2 ELSE n)
           /\ \A k \in DOMAIN scan.docs :
                ~scan.docs[k].readable => scan.matchFile # k

\* a link's scan found the fragment in the file after one that failed
C15_Witness ==
  /\ scan.pc = "done"
  /\ scan.purpose = "uri"
  /\ scan.docs = <<Unreadable, TextDocument(MatchText)>>
  /\ scan.shown = "selection"
  /\ scan.matchFile = 2

\* C16: a scan opens the members in the order of the corpus, each once,
\* and none after the member that gave the second match; with fewer than
\* two matches it opens every member.
C16_OpensInOrderUntilSecondMatch ==
  /\ scan.opened = SubSeq(scan.files, 1, Len(scan.opened))
  /\ Len(scan.docs) = Len(scan.opened)
  /\ \A k \in DOMAIN scan.opened :
       Cardinality(Hits(SubSeq(scan.docs, 1, k - 1), scan.snippet)) < 2
  /\ ( /\ scan.pc = "done"
       /\ Cardinality(Hits(scan.docs, scan.snippet)) < 2 )
     => scan.opened = scan.files

\* the add command's scan stopped at the second of three files
C16_Witness ==
  /\ scan.pc = "done"
  /\ scan.purpose = "add"
  /\ Len(scan.files) = 3
  /\ scan.docs = <<TextDocument(MatchText), TextDocument(MatchText)>>
  /\ scan.shown = "rejected"

\* C17: the add-global-unique-snippet command creates a global-snippet
\* record with the selected fragment as its snippet exactly when its scan
\* found the fragment in one member of the corpus; otherwise it creates
\* none and leaves the collection and the file as they were.
C17_AddsExactlyWhenUnique ==
  [][(scan.pc # "done" /\ scan'.pc = "done" /\ scan'.purpose = "add") =>
       IF Cardinality(Hits(scan'.docs, scan'.snippet)) = 1
       THEN /\ Len(references'.items) = Len(references.items) + 1
            /\ SubSeq(references'.items, 1, Len(references.items))
                 = references.items
            /\ references'.items[Len(references'.items)].type
                 = "global-snippet"
            /\ references'.items[Len(references'.items)].snippet
                 = scan'.snippet
       ELSE references' = references /\ file' = file]_vars

\* the shown outcome of a jump whose scan counted n matching members
JumpShows(n) ==
  CASE n = 0 -> "not-found"
    [] n = 1 -> "selection"
    [] OTHER -> "not-unique"

\* C18: a jump to a stored global-snippet record scans the corpus as it
\* is now and selects the located range when one member matches, warns
\* that the snippet was not found when none does, and warns that it is no
\* longer unique when two or more do; no step of the jump throws or
\* changes the collection or the file.
C18_JumpClassifiesAndLeavesStore ==
  /\ []((scan.pc = "done" /\ scan.purpose = "jump") =>
          /\ scan.shown
               = JumpShows(Cardinality(Hits(scan.docs, scan.snippet)))
          /\ scan.shown = "selection" =>
               /\ scan.matchFile \in Hits(scan.docs, scan.snippet)
               /\ scan.matchStartPosition # NoPosition
               /\ scan.matchEndPosition # NoPosition)
  /\ [][(scan' # scan /\ scan'.purpose = "jump") =>
          /\ references' = references
          /\ file' = file
          /\ lastOp' = lastOp]_vars

\* a jump found its snippet in two files; its record is still stored
C18_Witness ==
  /\ scan.pc = "done"
  /\ scan.purpose = "jump"
  /\ scan.shown = "not-unique"
  /\ Len(scan.docs) = 3
  /\ \E i \in DOMAIN references.items :
       /\ references.items[i].id = scan.id
       /\ references.items[i].type = "global-snippet"

\* C19: no call on the store (the constructor's load, add, list, reorder,
\* delete, rename) and no scan throws to its caller, whatever state the
\* file is in.
C19_NoUncaughtFault == ~lastOp.raised

\* C20: the store reads the file at startup only: whatever another writer
\* puts into the file afterwards, no later call brings a record from the
\* file into the collection, and the next save that succeeds replaces the
\* file with the serialization of the in-memory collection, without an
\* error.
C20_LastWriterWins ==
  [][/\ lastOp'.op # "load" =>
          \A j \in DOMAIN references'.items :
            \/ \E i \in DOMAIN references.items :
                 references'.items[j].obj = references.items[i].obj
            \/ /\ lastOp'.op = "addReference"
               /\ references'.items[j] = lastOp'.ret
     /\ (foreign.unseen /\ lastOp'.wrote = "ok") =>
          /\ ~lastOp'.raised
          /\ file' = ArrayDoc(Stringify(references'.items))]_vars

\* a save has replaced the file another writer had written since the
\* load; the file holds this store's record and not the other writer's
C20_Witness ==
  /\ foreign.unseen
  /\ lastOp.wrote = "ok"
  /\ Len(references.items) = 1
  /\ file = ArrayDoc(Stringify(references.items))
  /\ \A k \in DOMAIN file.items : file.items[k].title # ForeignRecord.title

\* C21: after any sequence of adds, interleaved with deletes, renames and
\* reorders, on a store that started empty, the ids of the stored records
\* are pairwise distinct.
C21_IdsPairwiseDistinct ==
  \A i \in DOMAIN references.items : \A j \in DOMAIN references.items :
    i # j => references.items[i].id # references.items[j].id

\* C22: within one scan at most one open is in flight at any time: while
\* the scan is suspended the one open in flight is that of the member after
\* those already processed (read and searched, or failed and skipped), and
\* no open is in flight once the scan has ended.
C22_OneOpenInFlight ==
  /\ Cardinality(scan.pending) <= 1
  /\ scan.pc = "open" =>
       /\ Len(scan.docs) < Len(scan.files)
       /\ scan.pending = {scan.files[Len(scan.docs) + 1]}
       /\ scan.i = Len(scan.docs)
  /\ scan.pc # "open" => scan.pending = {}

\* a jump waits for the third file; the first failed and was skipped, the
\* second has been read and searched
C22_Witness ==
  /\ scan.pc = "open"
  /\ scan.purpose = "jump"
  /\ scan.docs = <<Unreadable, TextDocument(MatchText)>>
  /\ scan.matchCount = 1
  /\ scan.pending = {3}

\* C23: a jump to a file-snippet record whose file opens selects the range
\* of the first occurrence of the stored snippet in the text the file has
\* now; when the snippet does not occur in it, a warning is shown and
\* nothing is selected; no step of the jump changes the collection or the
\* file.
C23_FileSnippetJump ==
  /\ []((scan.pc = "jumped" /\ scan.docs[1].readable) =>
          LET text == scan.docs[1].text
              fragment == Chars(scan.snippet)
              from == OffsetAt(text, scan.matchStartPosition)
              to == OffsetAt(text, scan.matchEndPosition)
          IN  IF \E o \in 0..Len(text) : OccursAt(text, fragment, o)
              THEN /\ scan.shown = "selection"
                   /\ OccursAt(text, fragment, from)
                   /\ \A o \in 0..(from - 1) : ~OccursAt(text, fragment, o)
                   /\ to = from + Len(fragment)
              ELSE /\ scan.shown = "snippet-gone"
                   /\ scan.matchStartPosition = NoPosition
                   /\ scan.matchEndPosition = NoPosition)
  /\ [][(scan' # scan /\ scan'.purpose = "file-snippet") =>
          /\ references' = references
          /\ file' = file
          /\ lastOp' = lastOp]_vars

\* a jump to a renamed file-snippet record found that its file no longer
\* holds the snippet; the record is still stored
C23_Witness ==
  /\ scan.pc = "jumped"
  /\ scan.docs = <<TextDocument(PlainText)>>
  /\ scan.shown = "snippet-gone"
  /\ \E i \in DOMAIN references.items :
       /\ references.items[i].id = scan.id
       /\ references.items[i].type = "file-snippet"
       /\ references.items[i].snippet = scan.snippet
       /\ references.items[i].title \in NewTitles

\* C24: while the view is resolved, every handler that changes the
\* collection through updateOrder, deleteReference, updateReferenceTitle or
\* an add command posts, before it returns, an updateReferences message
\* whose list is the collection after the change; so whenever a list has
\* been posted to the view, the last one posted is the store's collection.
C24_PanelFollowsStore ==
  /\ [][( /\ panel.view
          /\ lastOp' # lastOp
          /\ lastOp'.op \in MutatingOps
          /\ ~lastOp'.raised )
        => /\ panel'.posted
           /\ panel'.references = Stringify(references'.items)]_vars
  /\ [](panel.posted => panel.references = Stringify(references.items))

\* the add command's scan has added a second record while the view was
\* resolved, and the view has been sent both
C24_Witness ==
  /\ scan.pc = "done"
  /\ scan.shown = "added"
  /\ panel.view
  /\ Len(panel.references) = 2
  /\ panel.references[2].type = "global-snippet"
  /\ panel.references[1].title \in NewTitles

\* the number of slots of items that hold the object of record r
Slots(items, r) == Cardinality({i \in DOMAIN items : items[i].obj = r.obj})

\* C25: for any idSequence, one that repeats an id included, reorder
\* leaves the store holding exactly the records it held before, each
\* exactly once: the number of records is unchanged and the new collection
\* is a permutation of the previous one.
C25_ReorderIsPermutation ==
  [][(lastOp'.op = "updateOrder" /\ ~lastOp'.raised) =>
       /\ Len(references'.items) = Len(references.items)
       /\ \A r \in Range(references.items) \cup Range(references'.items) :
            Slots(references'.items, r) = Slots(references.items, r)]_vars

\* C26: when the add command's scan ends by creating its record, the
\* collection is the collection as the handlers that ran during the scan
\* left it, with the new record appended at its end, and the file is the
\* serialization of that collection: no add, delete, rename or reorder made
\* while the scan was suspended is lost or overwritten.
C26_ScanKeepsInterleavedMutations ==
  [][( /\ scan'.purpose = "add"
       /\ scan.pc # "done"
       /\ scan'.pc = "done"
       /\ scan'.shown = "added" )
     => /\ lastOp'.op = "addReference"
        /\ references'.items = Append(references.items, lastOp'.ret)
        /\ lastOp'.ret.type = "global-snippet"
        /\ file' = ArrayDoc(Stringify(references'.items))]_vars

\* the scan has appended its record behind a record that was renamed while
\* the scan was suspended; the file holds both
C26_Witness ==
  /\ scan.purpose = "add"
  /\ scan.pc = "done"
  /\ scan.shown = "added"
  /\ scan.overtaken
  /\ Len(references.items) = 2
  /\ references.items[1].title \in NewTitles
  /\ references.items[2] = lastOp.ret
  /\ file = ArrayDoc(Stringify(references.items))

\* C27: when a save has failed and a later add, delete or reorder saves
\* successfully, that call works on the collection as the earlier calls
\* left it in memory, and the file then holds the whole in-memory
\* collection, the effects of the calls whose saves failed included.
C27_LaterSaveWritesEverything ==
  [][( /\ lastOp' # lastOp
       /\ lastOp'.op \in {"addReference", "deleteReference", "updateOrder"}
       /\ lastOp'.wrote = "ok"
       /\ writeFails >= 1 )
     => /\ EffectApplied(references.items, references'.items, lastOp')
        /\ file' = ArrayDoc(Stringify(references'.items))]_vars

\* the save of a delete has succeeded after a save that failed: the file
\* holds the record the delete left in the collection
C27_Witness ==
  /\ lastOp.op = "deleteReference"
  /\ lastOp.wrote = "ok"
  /\ writeFails = 1
  /\ Len(references.items) = 1
  /\ references.items[1].createdAt = 2
  /\ references.items[1].id # lastOp.id
  /\ file = ArrayDoc(Stringify(references.items))

\* C28: when documents change while a scan is suspended between reads, but
\* at every moment exactly one member of the corpus contains the fragment,
\* the scan ends in UniqueMatch, and the add command creates its record.
C28_UniqueUnderEdits ==
  scan.pc = "done" =>
    /\ Outcome(scan.matchCount) = "UniqueMatch"
    /\ scan.purpose = "add" => scan.shown = "added"

\* C29: for any file name and any snippet, the link the copy-link commands
\* build is decoded by the URI handler to the same file name and the same
\* snippet, and the handler dispatches the jump with them instead of
\* reporting an error.
C29_LinkRoundTrip ==
  link.pc = "handled" =>
    /\ link.mode \notin {"missing", "error"}
    /\ link.decodedFilePath = link.filePath
    /\ link.decodedSnippet = link.snippet

\* C30: a scan over a finite corpus whose opens all return or fail always
\* ends; it opens every member at most once, in the order of the corpus;
\* it ends in exactly one of NoMatch, UniqueMatch and AmbiguousMatch, and
\* it ends either when the corpus is exhausted or at the second match.
C30_ScanFinishes ==
  /\ (scan.pc = "open") ~> (scan.pc = "done")
  /\ [](/\ Len(scan.opened) <= Len(scan.files)
        /\ \A j \in DOMAIN scan.opened : \A k \in DOMAIN scan.opened :
             scan.opened[j] = scan.opened[k] => j = k)
  /\ [](scan.pc = "done" =>
          /\ scan.matchCount \in {0, 1, 2}
          /\ scan.shown \in ShownFor(scan.purpose, Outcome(scan.matchCount))
          /\ \/ scan.matchCount < 2 /\ scan.opened = scan.files
             \/ /\ scan.matchCount = 2
                /\ scan.matchFile = scan.opened[Len(scan.opened)])

\* a link's scan has ended with no match after the opens of all three
\* files failed
C30_Witness ==
  /\ scan.pc = "done"
  /\ scan.purpose = "uri"
  /\ scan.docs = <<Unreadable, Unreadable, Unreadable>>
  /\ scan.shown = "not-found"

====
